---------------------------- MODULE Spec2Model ----------------------------
(***************************************************************************)
(* A model of the desktop agent: the control loop run_agent (agent.py),    *)
(* the tool dispatcher execute_tool (scenarios.py) and the helpers of      *)
(* utils.py (result envelopes, reasoning-span stripping and the two        *)
(* retention passes of the history manager).                               *)
(*                                                                         *)
(* Python values are kept with their type as a tag "t", so that the code's *)
(* isinstance tests are tests of the tag:                                  *)
(*   a str is [t |-> "str",  s |-> <<characters>>]                         *)
(*   a list of content parts is [t |-> "parts", parts |-> <<...>>]         *)
(*   None (or an absent key read with .get) is [t |-> "none"]              *)
(*   the str that json.dumps makes of an envelope d is                     *)
(*   [t |-> "json", v |-> d]                                               *)
(***************************************************************************)
EXTENDS Integers, Sequences, FiniteSets, TLC

VARIABLES
    \* run_agent
    cfg,            \* the configuration the run was started with
    pc,             \* where run_agent is: "init", "rpc", "tool", "returned", "aborted"
    messages,       \* the transcript
    step,           \* completed iterations of the for loop
    last_content,   \* the latest candidate final answer
    dump_idx,       \* dump_cfg["dump_idx"]
    screen,         \* scenarios._screen_dimensions
    tool_calls,     \* the tool calls of the step, cut to the one to execute
    ret,            \* the value run_agent returned
    \* history of the run (never read by the program)
    rpcs,           \* the model RPC calls made so far
    received,       \* the assistant messages, as the model RPC returned them
    executed,       \* the calls of execute_tool: step, name, call id
    surface,        \* the capability-surface calls: step, operation
    \* history manager on its own
    hm_pc,          \* "idle", "ready", "screens", "thinks"
    hm_in,          \* the transcript given
    hm_k,           \* keep_last
    hm_out,         \* the transcript after one pass
    hm_again,       \* the transcript after the same pass a second time
    \* the model endpoint
    endpoint,       \* the model that answers the RPC: "planner", "one_call", "none"
    \* one function on its own
    fn_pc,          \* "idle", "ready", "parse_args", "parse_box", "execute_tool"
    fn_in,          \* the arguments given
    fn_out          \* what the function returned

agentVars == <<cfg, pc, messages, step, last_content, dump_idx, screen, tool_calls,
               ret, rpcs, received, executed, surface, endpoint>>
hmVars == <<hm_pc, hm_in, hm_k, hm_out, hm_again>>
fnVars == <<fn_pc, fn_in, fn_out>>
vars == <<agentVars, hmVars, fnVars>>

-----------------------------------------------------------------------------
(* Python values *)

None == [t |-> "none"]
Str(s) == [t |-> "str", s |-> s]
Parts(p) == [t |-> "parts", parts |-> p]

Min(a, b) == IF a <= b THEN a ELSE b
Max(a, b) == IF a >= b THEN a ELSE b

\* seq[:stop] of Python: a negative stop counts from the end.
PySliceTo(seq, stop) ==
    LET n == Len(seq)
        e == IF stop < 0 THEN Max(n + stop, 0) ELSE Min(stop, n)
    IN SubSeq(seq, 1, e)

\* seq[start:] of Python, start >= 0.
PySliceFrom(seq, start) == SubSeq(seq, start + 1, Len(seq))

\* The indices i (ascending) with hit[i]: the loops that build idxs.
Idxs(hit) ==
    LET F[i \in 0..Len(hit)] ==
            IF i = 0 THEN <<>>
            ELSE IF hit[i] THEN Append(F[i - 1], i) ELSE F[i - 1]
    IN F[Len(hit)]

Range(seq) == {seq[i] : i \in DOMAIN seq}

-----------------------------------------------------------------------------
(* utils.py: result envelopes *)

\* json.dumps({"ok": True, **extra})
ok_payload(extra) == [t |-> "json", v |-> [ok |-> TRUE, fields |-> extra]]

\* json.dumps({"ok": False, "error": {"type": ..., "message": ...}})
err_payload(error_type, message) ==
    [t |-> "json",
     v |-> [ok |-> FALSE,
            error |-> [t |-> "obj", type |-> error_type, message |-> message]]]

-----------------------------------------------------------------------------
(* utils.py: reasoning spans *)

OPEN == <<"<", "t", "h", "i", "n", "k", ">">>
CLOSE == <<"<", "/", "t", "h", "i", "n", "k", ">">>

StartsAt(s, p, pat) ==
    /\ p >= 1
    /\ p + Len(pat) - 1 <= Len(s)
    /\ SubSeq(s, p, p + Len(pat) - 1) = pat

\* pat in s
Contains(s, pat) == \E p \in 1..Len(s) : StartsAt(s, p, pat)

\* The first position >= from where pat starts in s, 0 if there is none.
Find(s, from, pat) ==
    LET hits == {p \in from..Len(s) : StartsAt(s, p, pat)}
    IN IF hits = {} THEN 0 ELSE CHOOSE p \in hits : \A q \in hits : p <= q

\* _THINK_RE.sub("", s) with _THINK_RE = "<think>.*?</think>" (DOTALL): the
\* leftmost opening delimiter that has a closing delimiter after it, up to the
\* first such closing delimiter, is removed; the scan goes on behind the match.
RECURSIVE ThinkSub(_)
ThinkSub(s) ==
    LET p == Find(s, 1, OPEN)
        q == IF p = 0 THEN 0 ELSE Find(s, p + Len(OPEN), CLOSE)
    IN IF q = 0 THEN s
       ELSE SubSeq(s, 1, p - 1) \o ThinkSub(SubSeq(s, q + Len(CLOSE), Len(s)))

IsSpace(c) == c \in {" ", "\n", "\t"}

\* str.strip()
RECURSIVE LStrip(_)
LStrip(s) == IF s # <<>> /\ IsSpace(Head(s)) THEN LStrip(Tail(s)) ELSE s

RECURSIVE RStrip(_)
RStrip(s) ==
    IF s # <<>> /\ IsSpace(s[Len(s)]) THEN RStrip(SubSeq(s, 1, Len(s) - 1)) ELSE s

Strip(s) == RStrip(LStrip(s))

\* strip_think(text): a Python value in, the characters of a str out.
strip_think(text) ==
    IF text.t # "str" \/ text.s = <<>> THEN <<>> ELSE Strip(ThinkSub(text.s))

-----------------------------------------------------------------------------
(* utils.py: the history manager *)

PLACEHOLDER ==
    <<"c", "a", "p", "t", "u", "r", "e", "d", " ", "i", "m", "a", "g", "e", " ",
      "d", "a", "t", "a", " ", "(", "o", "m", "i", "t", "t", "e", "d", ")">>

\* The scan predicate of prune_old_screenshots.
HasImage(m) ==
    /\ m.role = "user"
    /\ m.content.t = "parts"
    /\ \E i \in DOMAIN m.content.parts : m.content.parts[i].type = "image_url"

\* The old image messages are removed instead of being rewritten.
prune_old_screenshots_dropping(msgs, keep_last) ==
    LET idxs == Idxs([i \in DOMAIN msgs |-> HasImage(msgs[i])])
        old == Range(PySliceTo(idxs, -keep_last))
        kept == Idxs([i \in DOMAIN msgs |-> i \notin old])
    IN IF Len(idxs) <= keep_last THEN msgs
       ELSE [j \in DOMAIN kept |-> msgs[kept[j]]]

prune_old_screenshots(msgs, keep_last) ==
    LET idxs == Idxs([i \in DOMAIN msgs |-> HasImage(msgs[i])])
        old == Range(PySliceTo(idxs, -keep_last))
    IN IF Len(idxs) <= keep_last THEN msgs
       ELSE [i \in DOMAIN msgs |->
                IF i \in old THEN [msgs[i] EXCEPT !.content = Str(PLACEHOLDER)]
                ELSE msgs[i]]

\* The scan predicate of prune_old_thinks.
HasThink(m) ==
    /\ m.role = "assistant"
    /\ m.content.t = "str"
    /\ Contains(m.content.s, OPEN)
    /\ Contains(m.content.s, CLOSE)

prune_old_thinks(msgs, keep_last) ==
    LET idxs == Idxs([i \in DOMAIN msgs |-> HasThink(msgs[i])])
        old == Range(PySliceTo(idxs, -keep_last))
    IN IF Len(idxs) <= keep_last THEN msgs
       ELSE [i \in DOMAIN msgs |->
                IF i \in old /\ msgs[i].content.t = "str"
                THEN [msgs[i] EXCEPT !.content = Str(Strip(ThinkSub(msgs[i].content.s)))]
                ELSE msgs[i]]

-----------------------------------------------------------------------------
(* Tool arguments.  A JSON value is a tagged value as above, with            *)
(*   [t |-> "num", n |-> integer], [t |-> "bool", b |-> BOOLEAN],            *)
(*   [t |-> "list", l |-> <<values>>], [t |-> "dict", d |-> function].       *)
(* A float is kept in halves (FloatUnit halves make 1.0), which is exact for *)
(* integer coordinates and their midpoints.                                  *)

Num(n) == [t |-> "num", n |-> n]
Bool(b) == [t |-> "bool", b |-> b]
List(l) == [t |-> "list", l |-> l]
Dict(d) == [t |-> "dict", d |-> d]
\* An int above the range of float, such as 10**400.
BigInt == [t |-> "bigint"]
\* An exception that leaves the function.
Raise(type) == [t |-> "raise", type |-> type]

\* The argument mapping: the keys the tools read; a key the mapping does not
\* hold is Absent.
Absent == [t |-> "absent"]
Args(label, box, text, key) ==
    Dict([label |-> label, box |-> box, text |-> text, key |-> key])
EmptyDict == Args(Absent, Absent, Absent, Absent)

\* d.get(key, default)
Get(d, key, default) == IF d[key].t = "absent" THEN default ELSE d[key]

FloatUnit == 2

DIGITS == <<"0", "1", "2", "3", "4", "5", "6", "7", "8", "9">>
IsDigit(c) == \E i \in DOMAIN DIGITS : DIGITS[i] = c
DigitVal(c) == (CHOOSE i \in DOMAIN DIGITS : DIGITS[i] = c) - 1

RECURSIVE DigitsVal(_)
DigitsVal(s) ==
    IF s = <<>> THEN 0
    ELSE DigitsVal(SubSeq(s, 1, Len(s) - 1)) * 10 + DigitVal(s[Len(s)])

RECURSIVE NatStr(_)
NatStr(n) == IF n < 10 THEN <<DIGITS[n + 1]>> ELSE NatStr(n \div 10) \o <<DIGITS[(n % 10) + 1]>>

\* str(v): the text Python makes of a value.  Of a list only a non-blank
\* bracketed text is kept.
PyStr(v) ==
    CASE v.t = "str" -> v.s
      [] v.t = "none" -> <<"N", "o", "n", "e">>
      [] v.t = "bool" -> IF v.b THEN <<"T", "r", "u", "e">> ELSE <<"F", "a", "l", "s", "e">>
      [] v.t = "num" -> IF v.n < 0 THEN <<"-">> \o NatStr(-v.n) ELSE NatStr(v.n)
      [] v.t = "list" -> <<"[", "]">>
      [] v.t = "bigint" -> <<"1">> \o [i \in 1..400 |-> "0"]
      [] OTHER -> <<"{", "}">>

\* float(v): [ok, x, exc] with x in halves; not ok is the exception exc.
\* Of the texts, those of decimal digits are the ones that convert.
PyFloat(v) ==
    CASE v.t = "num" -> [ok |-> TRUE, x |-> v.n * FloatUnit, exc |-> ""]
      [] v.t = "bool" -> [ok |-> TRUE, x |-> IF v.b THEN FloatUnit ELSE 0, exc |-> ""]
      [] v.t = "str" ->
            IF v.s # <<>> /\ \A i \in DOMAIN v.s : IsDigit(v.s[i])
            THEN [ok |-> TRUE, x |-> DigitsVal(v.s) * FloatUnit, exc |-> ""]
            ELSE [ok |-> FALSE, x |-> 0, exc |-> "ValueError"]
      [] v.t = "bigint" -> [ok |-> FALSE, x |-> 0, exc |-> "OverflowError"]
      [] OTHER -> [ok |-> FALSE, x |-> 0, exc |-> "TypeError"]

\* isinstance(v, (int, float)): bool is a subclass of int.
IsNumber(v) == v.t \in {"num", "bool", "bigint"}

\* The exception of the first conversion, in order, that fails; "" if none does.
FirstExc(fs) ==
    LET bad == {i \in DOMAIN fs : ~fs[i].ok}
    IN IF bad = {} THEN "" ELSE fs[CHOOSE i \in bad : \A j \in bad : i <= j].exc

\* except (TypeError, ValueError): any other exception leaves parse_box.
BoxFailure(exc, caught) == IF exc \in {"TypeError", "ValueError"} THEN caught ELSE Raise(exc)

\* '{"key":"tab"}'
KeyTabJson == <<"{", "\"", "k", "e", "y", "\"", ":", "\"", "t", "a", "b", "\"", "}">>

\* json.loads on the argument texts the model draws: "{}", '{"key":"tab"}',
\* "[]", "7" decode, any other text is a JSONDecodeError.
JsonLoads(s) ==
    CASE s = <<"{", "}">> -> [ok |-> TRUE, val |-> EmptyDict]
      [] s = KeyTabJson ->
            [ok |-> TRUE, val |-> Args(Absent, Absent, Absent, Str(<<"t", "a", "b">>))]
      [] s = <<"[", "]">> -> [ok |-> TRUE, val |-> List(<<>>)]
      [] s = <<"7">> -> [ok |-> TRUE, val |-> Num(7)]
      [] OTHER -> [ok |-> FALSE, val |-> None]

\* The decoded value is returned without the test for a dict.
parse_args_any_json(arg_str) ==
    IF arg_str.t = "none" THEN [args |-> EmptyDict, err |-> None]
    ELSE IF arg_str.t = "dict" THEN [args |-> arg_str, err |-> None]
    ELSE IF arg_str.t # "str"
    THEN [args |-> None,
          err |-> err_payload("invalid_args", "arguments must be a dict or JSON string")]
    ELSE LET val == IF arg_str.s # <<>> THEN JsonLoads(arg_str.s)
                    ELSE [ok |-> TRUE, val |-> EmptyDict]
         IN IF ~val.ok
            THEN [args |-> None,
                  err |-> err_payload("invalid_json", "arguments must be valid JSON")]
            ELSE [args |-> val.val, err |-> None]

\* parse_args(arg_str): (args, err), one of them None.
parse_args(arg_str) ==
    IF arg_str.t = "none" THEN [args |-> EmptyDict, err |-> None]
    ELSE IF arg_str.t = "dict" THEN [args |-> arg_str, err |-> None]
    ELSE IF arg_str.t # "str"
    THEN [args |-> None,
          err |-> err_payload("invalid_args", "arguments must be a dict or JSON string")]
    ELSE LET val == IF arg_str.s # <<>> THEN JsonLoads(arg_str.s)
                    ELSE [ok |-> TRUE, val |-> EmptyDict]
         IN IF ~val.ok
            THEN [args |-> None,
                  err |-> err_payload("invalid_json", "arguments must be valid JSON")]
            ELSE IF val.val.t # "dict"
            THEN [args |-> None,
                  err |-> err_payload("invalid_args", "arguments JSON must parse to an object")]
            ELSE [args |-> val.val, err |-> None]

-----------------------------------------------------------------------------
(* utils.py: box parsing *)

CoordMax == 1000

\* min(1000.0, v): the lower limit is left out
clamp_upper(v) == Min(CoordMax * FloatUnit, v)

\* clamp(v) = max(0.0, min(1000.0, v)), v in halves
clamp(v) == Max(0, Min(CoordMax * FloatUnit, v))

\* The clamp, then the two swaps, of the bbox branches.
Ordered(x1, y1, x2, y2) ==
    LET a == clamp(x1)
        b == clamp(y1)
        c == clamp(x2)
        d == clamp(y2)
    IN <<Min(a, c), Min(b, d), Max(a, c), Max(b, d)>>

BoxShapeError ==
    err_payload("invalid_box", "box must be [x,y], [x1,y1,x2,y2], or [[x1,y1],[x2,y2]]")
BoxNumberError == err_payload("invalid_box", "coordinates must be numbers")

\* parse_box(box): (bbox, err), one of them None; bbox is <<x1, y1, x2, y2>>.
\* An exception the except clause does not catch leaves parse_box: err is
\* then the Raise of it.
parse_box(box) ==
    IF box.t = "list" /\ Len(box.l) = 2 /\ \A i \in 1..2 : IsNumber(box.l[i])
    THEN LET fs == [i \in 1..2 |-> PyFloat(box.l[i])]
             x == clamp(fs[1].x)
             y == clamp(fs[2].x)
         IN IF FirstExc(fs) # ""
            THEN [bbox |-> None, err |-> BoxFailure(FirstExc(fs), BoxNumberError)]
            ELSE [bbox |-> <<x, y, x, y>>, err |-> None]
    ELSE IF box.t = "list" /\ Len(box.l) = 4 /\ \A i \in 1..4 : IsNumber(box.l[i])
    THEN LET fs == [i \in 1..4 |-> PyFloat(box.l[i])]
         IN IF FirstExc(fs) # ""
            THEN [bbox |-> None, err |-> BoxFailure(FirstExc(fs), BoxNumberError)]
            ELSE [bbox |-> Ordered(fs[1].x, fs[2].x, fs[3].x, fs[4].x), err |-> None]
    ELSE IF box.t # "list" \/ Len(box.l) # 2
    THEN [bbox |-> None, err |-> BoxShapeError]
    ELSE LET p1 == box.l[1]
             p2 == box.l[2]
         IN IF ~(p1.t = "list" /\ p2.t = "list") \/ Len(p1.l) # 2 \/ Len(p2.l) # 2
            THEN [bbox |-> None, err |-> BoxShapeError]
            ELSE LET x1 == PyFloat(p1.l[1])
                     y1 == PyFloat(p1.l[2])
                     x2 == PyFloat(p2.l[1])
                     y2 == PyFloat(p2.l[2])
                 IN IF ~(x1.ok /\ y1.ok /\ x2.ok /\ y2.ok)
                    THEN [bbox |-> None,
                          err |-> BoxFailure(FirstExc(<<x1, y1, x2, y2>>), BoxNumberError)]
                    ELSE [bbox |-> Ordered(x1.x, y1.x, x2.x, y2.x), err |-> None]

\* box_center: the midpoint, in halves.
box_center(x1, y1, x2, y2) == <<(x1 + x2) \div 2, (y1 + y2) \div 2>>

-----------------------------------------------------------------------------
(* winapi: the capability surface.  Its operations are recorded, in call    *)
(* order, as [op |-> name, arg |-> argument].                               *)

\* norm_to_screen_px(cx, cy, width, height): px = cx / 1000 * width.
norm_to_screen_px(cx, cy, width, height) ==
    <<(cx * width) \div (CoordMax * FloatUnit), (cy * height) \div (CoordMax * FloatUnit)>>

\* The key names press_key takes; any other name is its ValueError.
SupportedKeys == {<<"e", "n", "t", "e", "r">>, <<"t", "a", "b">>, <<"e", "s", "c">>}

Op(op, arg) == [op |-> op, arg |-> arg]

-----------------------------------------------------------------------------
(* scenarios.py: execute_tool *)

UPPER == <<"A", "B", "C", "D", "E", "F", "G", "H", "I", "J", "K", "L", "M",
           "N", "O", "P", "Q", "R", "S", "T", "U", "V", "W", "X", "Y", "Z">>
LOWER == <<"a", "b", "c", "d", "e", "f", "g", "h", "i", "j", "k", "l", "m",
           "n", "o", "p", "q", "r", "s", "t", "u", "v", "w", "x", "y", "z">>

\* str.lower()
Lower(s) ==
    [i \in DOMAIN s |->
        IF \E j \in DOMAIN UPPER : UPPER[j] = s[i]
        THEN LOWER[CHOOSE j \in DOMAIN UPPER : UPPER[j] = s[i]]
        ELSE s[i]]

\* The characters outside ASCII that the model's texts use.
NonAscii == {"é", "ü"}

\* text.encode("ascii", "ignore").decode("ascii")
AsciiOnly(s) == SelectSeq(s, LAMBDA c : c \notin NonAscii)

\* The tool message carries the tool name as its id.
ToolMsgNamedAsId(call_id, tool_name, content) ==
    [role |-> "tool", tool_call_id |-> tool_name, name |-> tool_name, content |-> content]

\* {"role": "tool", "tool_call_id": call_id, "name": tool_name, "content": ...}
ToolMsg(call_id, tool_name, content) ==
    [role |-> "tool", tool_call_id |-> call_id, name |-> tool_name, content |-> content]

\* What execute_tool returns and does: the tool message, the companion user
\* message (or None), the capability-surface calls in order, and the screen
\* geometry and dump index it leaves.
Outcome(tool_msg, user_msg, ops, scr, idx) ==
    [tool_msg |-> tool_msg, user_msg |-> user_msg, ops |-> ops, screen |-> scr,
     dump_idx |-> idx, raised |-> None]

\* An exception leaves execute_tool before it has touched the surface:
\* nothing is returned.
Raises(exc, env) ==
    [tool_msg |-> None, user_msg |-> None, ops |-> <<>>, screen |-> env.screen,
     dump_idx |-> env.dump_idx, raised |-> exc]

\* dump_cfg["dump_idx"] is not incremented.
observe_screen_index_kept(tool_name, call_id, env) ==
    LET cap == env.capture
        fn == env.dump_idx
    IN Outcome(
        ToolMsg(call_id, tool_name,
                ok_payload([file |-> fn, screen_width |-> cap.w, screen_height |-> cap.h])),
        [role |-> "user",
         content |-> Parts(<<[type |-> "text"],
                             [type |-> "image_url", url |-> cap.png]>>)],
        <<Op("capture", fn)>>,
        [width |-> cap.w, height |-> cap.h],
        env.dump_idx)

\* _screen_dimensions is not written.
observe_screen_geometry_kept(tool_name, call_id, env) ==
    LET cap == env.capture
        fn == env.dump_idx
    IN Outcome(
        ToolMsg(call_id, tool_name,
                ok_payload([file |-> fn, screen_width |-> cap.w, screen_height |-> cap.h])),
        [role |-> "user",
         content |-> Parts(<<[type |-> "text"],
                             [type |-> "image_url", url |-> cap.png]>>)],
        <<Op("capture", fn)>>,
        env.screen,
        env.dump_idx + 1)

\* env: the state execute_tool reads (screen, dump_idx) and the frame the
\* capability surface would capture now (capture = [png, w, h]).
observe_screen(tool_name, call_id, env) ==
    LET cap == env.capture
        fn == env.dump_idx
    IN Outcome(
        ToolMsg(call_id, tool_name,
                ok_payload([file |-> fn, screen_width |-> cap.w, screen_height |-> cap.h])),
        [role |-> "user",
         content |-> Parts(<<[type |-> "text"],
                             [type |-> "image_url", url |-> cap.png]>>)],
        <<Op("capture", fn)>>,
        [width |-> cap.w, height |-> cap.h],
        env.dump_idx + 1)

\* The content is also handed back as a user message.
ReplyWithCompanion(tool_name, call_id, env, content) ==
    Outcome(ToolMsg(call_id, tool_name, content),
            [role |-> "user", content |-> Parts(<<[type |-> "text"]>>)],
            <<>>, env.screen, env.dump_idx)

\* A tool that returns content without touching the surface.
Reply(tool_name, call_id, env, content) ==
    Outcome(ToolMsg(call_id, tool_name, content), None, <<>>, env.screen, env.dump_idx)

click_element(tool_name, arg_str, call_id, env) ==
    LET pa == parse_args(arg_str)
        label == Strip(PyStr(Get(pa.args.d, "label", Str(<<>>))))
        box == Get(pa.args.d, "box", None)
        pb == parse_box(box)
        c == box_center(pb.bbox[1], pb.bbox[2], pb.bbox[3], pb.bbox[4])
        px == norm_to_screen_px(c[1], c[2], env.screen.width, env.screen.height)
    IN IF pa.err # None THEN Reply(tool_name, call_id, env, pa.err)
       ELSE IF label = <<>>
       THEN Reply(tool_name, call_id, env, err_payload("missing_label", "label required"))
       ELSE IF box.t = "none"
       THEN Reply(tool_name, call_id, env, err_payload("missing_box", "box required"))
       ELSE IF pb.err.t = "raise" THEN Raises(pb.err, env)
       ELSE IF pb.err # None THEN Reply(tool_name, call_id, env, pb.err)
       ELSE Outcome(
                ToolMsg(call_id, tool_name,
                        ok_payload([clicked |-> label, box_normalized |-> pb.bbox,
                                    click_position |-> c])),
                None,
                <<Op("move", px), Op("click", None)>>,
                env.screen, env.dump_idx)

\* The text is typed as given; chars is its length before the filter.
type_text_unfiltered(tool_name, arg_str, call_id, env) ==
    LET pa == parse_args(arg_str)
        text == PyStr(Get(pa.args.d, "text", Str(<<>>)))
        text_ascii == AsciiOnly(text)
    IN IF pa.err # None THEN Reply(tool_name, call_id, env, pa.err)
       ELSE IF text_ascii = <<>>
       THEN Reply(tool_name, call_id, env,
                  err_payload("empty_text", "text empty or no ASCII chars"))
       ELSE Outcome(
                ToolMsg(call_id, tool_name,
                        ok_payload([typed |-> text, chars |-> Len(text)])),
                None,
                <<Op("type", text)>>,
                env.screen, env.dump_idx)

type_text(tool_name, arg_str, call_id, env) ==
    LET pa == parse_args(arg_str)
        text == PyStr(Get(pa.args.d, "text", Str(<<>>)))
        text_ascii == AsciiOnly(text)
    IN IF pa.err # None THEN Reply(tool_name, call_id, env, pa.err)
       ELSE IF text_ascii = <<>>
       THEN Reply(tool_name, call_id, env,
                  err_payload("empty_text", "text empty or no ASCII chars"))
       ELSE Outcome(
                ToolMsg(call_id, tool_name,
                        ok_payload([typed |-> text_ascii, chars |-> Len(text_ascii)])),
                None,
                <<Op("type", text_ascii)>>,
                env.screen, env.dump_idx)

press_key(tool_name, arg_str, call_id, env) ==
    LET pa == parse_args(arg_str)
        key == Lower(Strip(PyStr(Get(pa.args.d, "key", Str(<<>>)))))
    IN IF pa.err # None THEN Reply(tool_name, call_id, env, pa.err)
       ELSE IF key = <<>>
       THEN Reply(tool_name, call_id, env, err_payload("missing_key", "key required"))
       ELSE Outcome(
                ToolMsg(call_id, tool_name,
                        IF key \in SupportedKeys THEN ok_payload([key |-> key])
                        ELSE err_payload("invalid_key", "ValueError")),
                None,
                <<Op("press", key)>>,
                env.screen, env.dump_idx)

scroll_at_position(tool_name, arg_str, call_id, env) ==
    LET pa == parse_args(arg_str)
        box == Get(pa.args.d, "box", None)
        pb == parse_box(box)
        c == IF box.t # "none"
             THEN box_center(pb.bbox[1], pb.bbox[2], pb.bbox[3], pb.bbox[4])
             ELSE <<500 * FloatUnit, 500 * FloatUnit>>
        px == norm_to_screen_px(c[1], c[2], env.screen.width, env.screen.height)
    IN IF pa.err # None THEN Reply(tool_name, call_id, env, pa.err)
       ELSE IF box.t # "none" /\ pb.err.t = "raise" THEN Raises(pb.err, env)
       ELSE IF box.t # "none" /\ pb.err # None THEN Reply(tool_name, call_id, env, pb.err)
       ELSE Outcome(
                ToolMsg(call_id, tool_name, ok_payload([scrolled_at |-> c])),
                None,
                <<Op("move", px), Op("scroll", None)>>,
                env.screen, env.dump_idx)

\* The name is compared without regard to case.
execute_tool_any_case(tool_name, arg_str, call_id, env) ==
    CASE tool_name \in {"observe_screen", "Observe_Screen"} ->
            observe_screen(tool_name, call_id, env)
      [] tool_name = "click_element" -> click_element(tool_name, arg_str, call_id, env)
      [] tool_name = "type_text" -> type_text(tool_name, arg_str, call_id, env)
      [] tool_name = "press_key" -> press_key(tool_name, arg_str, call_id, env)
      [] tool_name = "scroll_at_position" ->
            scroll_at_position(tool_name, arg_str, call_id, env)
      [] OTHER ->
            Reply(tool_name, call_id, env, err_payload("unknown_tool", "Unknown tool"))

execute_tool(tool_name, arg_str, call_id, env) ==
    CASE tool_name = "observe_screen" -> observe_screen(tool_name, call_id, env)
      [] tool_name = "click_element" -> click_element(tool_name, arg_str, call_id, env)
      [] tool_name = "type_text" -> type_text(tool_name, arg_str, call_id, env)
      [] tool_name = "press_key" -> press_key(tool_name, arg_str, call_id, env)
      [] tool_name = "scroll_at_position" ->
            scroll_at_position(tool_name, arg_str, call_id, env)
      [] OTHER ->
            Reply(tool_name, call_id, env, err_payload("unknown_tool", "Unknown tool"))

-----------------------------------------------------------------------------
(* The inputs of a run: the configuration, the frames the screen shows and  *)
(* the replies of the model.                                                *)

MaxSteps == 2
MaxCalls == 2

DumpStart == 1
DefaultWidth == 1920
DefaultHeight == 1080

\* keep_last_screenshots and keep_last_thinks: nothing is kept, or the last one.
KeepChoices == {0, 1}

Configs ==
    [keep_last_screenshots : KeepChoices, keep_last_thinks : KeepChoices,
     max_steps : 0..MaxSteps, dump_start : {DumpStart}]

system_prompt == <<"S">>
task_prompt == <<"T">>

\* winapi.capture_screenshot_png: the frame and the size of the screen now.
Captures == {[png |-> "frame", w |-> 2560, h |-> 1440], [png |-> "frame", w |-> 1280, h |-> 720]}

\* "<think>r</think> ok"
ThinkThenAnswer == OPEN \o <<"r">> \o CLOSE \o <<" ", "o", "k">>
\* "<th<think>a</think>ink>b</think>": removing the span joins a new one.
SplicedThink == <<"<", "t", "h">> \o OPEN \o <<"a">> \o CLOSE
                \o <<"i", "n", "k", ">", "b">> \o CLOSE

\* The content of a reply that ends the run, and of one that calls tools.
Contents == {None, Str(ThinkThenAnswer), Str(SplicedThink)}
CallingContents == {None, Str(ThinkThenAnswer)}

ToolCall(id, name, arguments) == [id |-> id, name |-> name, arguments |-> arguments]

Point(x, y) == List(<<Num(x), Num(y)>>)

\* The call a reply may put first.
FirstCalls ==
    { ToolCall("call_1", "observe_screen", None),
      ToolCall("call_1", "click_element",
               Args(Str(<<"o", "k">>), Point(500, 500), Absent, Absent)),
      ToolCall("call_1", "launch_app", Str(<<"{">>)) }

\* The calls a reply may put behind the first, in this order.
MoreCalls ==
    << ToolCall("call_2", "type_text", Args(Absent, Absent, Str(<<"h", "i">>), Absent)),
       ToolCall("call_3", "observe_screen", None),
       ToolCall("call_4", "press_key", Args(Absent, Absent, Absent, Str(<<"t", "a", "b">>))),
       ToolCall("call_5", "click_element", None) >>

\* One to MaxCalls calls with distinct ids.
CallSeqs ==
    { <<c>> \o SubSeq(MoreCalls, 1, n) :
        c \in FirstCalls, n \in 0..Min(MaxCalls - 1, Len(MoreCalls)) }

\* resp["choices"][0]["message"]
Responses ==
    { [role |-> "assistant", content |-> c, tool_calls |-> <<>>] : c \in Contents }
    \cup { [role |-> "assistant", content |-> c, tool_calls |-> tcs] :
                c \in CallingContents, tcs \in CallSeqs }

\* The tool names: those of the dispatcher, and names it does not know.
KnownTools == {"observe_screen", "click_element", "type_text", "press_key",
               "scroll_at_position"}
UnknownTools == {"launch_app", "Observe_Screen", ""}

\* Values of the arguments the tools read.
Labels == {Absent, None, Str(<<>>), Str(<<" ">>), Str(<<"o", "k">>), Num(5), Bool(FALSE)}
Texts == {Absent, None, Str(<<>>), Str(<<"h", "i">>), Str(<<"h", "é", "l", "l", "o">>),
          Str(<<"é", "ü">>), Num(5)}
Keys == {Absent, None, Str(<<>>), Str(<<"T", "a", "b">>), Str(<<" ", "e", "n", "t", "e", "r", " ">>),
         Str(<<"f", "1", "3">>)}
ToolBoxes ==
    {Absent, None, Point(500, 500), Point(-5, 1005),
     List(<<Num(100), Num(200), Num(50), Num(400)>>),
     List(<<Point(900, 100), Point(300, 700)>>),
     List(<<List(<<Str(<<"5">>), Num(6)>>), Point(7, 8)>>),
     List(<<List(<<Str(<<"a">>), Num(6)>>), Point(7, 8)>>),
     List(<<Num(1), Num(2), Num(3)>>),
     List(<<Bool(TRUE), Num(2)>>),
     List(<<BigInt, Num(0)>>),
     Str(<<"5">>)}

\* The argument payloads of a tool call: absent, a text, a mapping, another value.
ArgPayloads ==
    {None, Str(<<>>), Str(<<"{", "}">>), Str(KeyTabJson), Str(<<"{">>), Str(<<"[", "]">>),
     Str(<<"7">>), Str(<<" ">>), List(<<>>), Num(7), Bool(TRUE)}
    \cup {Args(l, b, Absent, Absent) : l \in Labels, b \in ToolBoxes}
    \cup {Args(Absent, Absent, t, Absent) : t \in Texts}
    \cup {Args(Absent, Absent, Absent, k) : k \in Keys}

\* The calls of a run whose replies carry one call each: every tool, with
\* arguments that pass and arguments that fail in each way.
RunCalls ==
    { ToolCall("call_1", "observe_screen", None),
      ToolCall("call_1", "click_element", Args(Str(<<"o", "k">>), Point(500, 500), Absent, Absent)),
      ToolCall("call_1", "click_element",
               Args(Str(<<"o", "k">>), List(<<Num(100), Num(200), Num(50), Num(400)>>),
                    Absent, Absent)),
      ToolCall("call_1", "click_element", List(<<>>)),
      ToolCall("call_1", "click_element", Str(<<"7">>)),
      ToolCall("call_1", "click_element", Args(Absent, Absent, Absent, Absent)),
      ToolCall("call_1", "click_element", Args(Str(<<"o", "k">>), Absent, Absent, Absent)),
      ToolCall("call_1", "click_element",
               Args(Str(<<"o", "k">>), List(<<Num(1), Num(2), Num(3)>>), Absent, Absent)),
      ToolCall("call_1", "type_text", Str(<<"{">>)),
      ToolCall("call_1", "type_text", Args(Absent, Absent, Str(<<"é", "ü">>), Absent)),
      ToolCall("call_1", "type_text", Args(Absent, Absent, Str(<<"h", "i">>), Absent)),
      ToolCall("call_1", "press_key", Str(<<>>)),
      ToolCall("call_1", "press_key", Str(KeyTabJson)),
      ToolCall("call_1", "press_key", Args(Absent, Absent, Absent, Str(<<"f", "1", "3">>))),
      ToolCall("call_1", "scroll_at_position", None),
      ToolCall("call_1", "scroll_at_position", Args(Absent, Point(0, 1000), Absent, Absent)),
      ToolCall("call_1", "scroll_at_position", Args(Absent, Str(<<"5">>), Absent, Absent)),
      ToolCall("call_1", "scroll_at_position",
               Args(Absent, List(<<BigInt, Num(0)>>), Absent, Absent)),
      ToolCall("call_1", "launch_app", Str(<<"{">>)) }

\* The replies of that run: one call, or the answer that ends it.
CallResponses ==
    { [role |-> "assistant", content |-> Str(<<"o", "k">>), tool_calls |-> <<>>] }
    \cup { [role |-> "assistant", content |-> None, tool_calls |-> <<c>>] : c \in RunCalls }

-----------------------------------------------------------------------------
(* agent.py: run_agent *)

\* tool_calls[2:]: the slice starts one call late
ExtraCallsFromThird(tcs) == PySliceFrom(tcs, 2)

\* tool_calls[1:], the calls that are not executed
ExtraCalls(tcs) == PySliceFrom(tcs, 1)

\* The synthetic tool message of an extra call.
TooMany(extra_tc) ==
    ToolMsg(extra_tc.id, extra_tc.name,
            [t |-> "json",
             v |-> [ok |-> FALSE, error |-> Str("too_many_tool_calls")]])

\* last_content = msg.get("content"), without the isinstance test
LatestUnchecked(content, previous) == content

\* if isinstance(msg.get("content"), str): last_content = msg["content"]
Latest(content, previous) == IF content.t = "str" THEN content ELSE previous

\* range(max_steps + 1): one iteration too many
LoopPcOneMore(done) == IF done <= cfg.max_steps THEN "rpc" ELSE "returned"

\* The loop head: the next iteration, or the return behind the loop.
LoopPc(done) == IF done < cfg.max_steps THEN "rpc" ELSE "returned"

\* The value returned when the loop head ends the run.
LoopRet(done, content) == IF done < cfg.max_steps THEN None ELSE Str(strip_think(content))

\* With a companion, only the user message is appended.
AppendOutcomeCompanionOnly(msgs, out) ==
    IF out.user_msg # None
    THEN prune_old_screenshots(Append(msgs, out.user_msg), cfg.keep_last_screenshots)
    ELSE Append(msgs, out.tool_msg)

\* The tool message is put right behind the reply, before the synthetic
\* messages of the extra calls.
AppendOutcomeBehindReply(msgs, out) ==
    LET replies == {i \in DOMAIN msgs : msgs[i].role = "assistant"}
        at == IF replies = {} THEN Len(msgs)
              ELSE CHOOSE i \in replies : \A j \in replies : j <= i
        answered == SubSeq(msgs, 1, at) \o <<out.tool_msg>> \o SubSeq(msgs, at + 1, Len(msgs))
    IN IF out.user_msg # None
       THEN prune_old_screenshots(Append(answered, out.user_msg), cfg.keep_last_screenshots)
       ELSE answered

\* The tool message of a failed call is not appended.
AppendOutcomeOkOnly(msgs, out) ==
    IF out.user_msg # None
    THEN prune_old_screenshots(msgs \o <<out.tool_msg, out.user_msg>>,
                               cfg.keep_last_screenshots)
    ELSE IF out.tool_msg.content.v.ok THEN Append(msgs, out.tool_msg)
    ELSE msgs

\* The append of the tool message and, with a companion, of the user message
\* and the screenshot retention.
AppendOutcome(msgs, out) ==
    IF out.user_msg # None
    THEN prune_old_screenshots(msgs \o <<out.tool_msg, out.user_msg>>,
                               cfg.keep_last_screenshots)
    ELSE Append(msgs, out.tool_msg)

\* The surface calls of one execute_tool, with the step they belong to.
Logged(ops, at) == [i \in DOMAIN ops |-> [step |-> at, op |-> ops[i].op, arg |-> ops[i].arg]]

Env(cap) == [screen |-> screen, dump_idx |-> dump_idx, capture |-> cap]

AgentInit ==
    /\ cfg \in Configs
    /\ pc = "init"
    /\ messages = << [role |-> "system", content |-> Str(system_prompt)],
                     [role |-> "user", content |-> Str(task_prompt)] >>
    /\ step = 0
    /\ last_content = Str(<<>>)
    /\ dump_idx = cfg.dump_start
    /\ screen = [width |-> DefaultWidth, height |-> DefaultHeight]
    /\ tool_calls = <<>>
    /\ ret = None
    /\ rpcs = 0
    /\ received = <<>>
    /\ executed = <<>>
    /\ surface = <<>>

\* The model endpoint of a run: any of Responses may come back from the RPC.
AnyReply == endpoint = "planner"

\* resp["choices"][0]["message"] of the endpoint
Served(name) ==
    CASE name = "planner" -> Responses
      [] name = "one_call" -> CallResponses
      [] OTHER -> {}

HmIdle ==
    /\ hm_pc = "idle"
    /\ hm_in = <<>>
    /\ hm_k = 0
    /\ hm_out = <<>>
    /\ hm_again = <<>>

FnIdle ==
    /\ fn_pc = "idle"
    /\ fn_in = None
    /\ fn_out = None

\* INIT: the initial observation, then the loop head.
InitObserve ==
    /\ pc = "init"
    /\ \E cap \in Captures :
        LET out == execute_tool("observe_screen", None, "initial_observation", Env(cap))
        IN /\ messages' = AppendOutcome(messages, out)
           /\ screen' = out.screen
           /\ dump_idx' = out.dump_idx
           /\ executed' = Append(executed,
                                 [step |-> 0, name |-> "observe_screen",
                                  id |-> "initial_observation"])
           /\ surface' = surface \o Logged(out.ops, 0)
    /\ pc' = LoopPc(0)
    /\ ret' = LoopRet(0, last_content)
    /\ UNCHANGED <<cfg, step, last_content, tool_calls, rpcs, received, endpoint,
                   hmVars, fnVars>>

\* STEP, first half: the model RPC returns msg; the assistant message is
\* appended and the thinks pruned; a reply without tool calls ends the run,
\* the extra calls of any other reply are answered.
ModelReply ==
    /\ pc = "rpc"
    /\ \E msg \in Served(endpoint) :
        LET pruned == prune_old_thinks(Append(messages, msg), cfg.keep_last_thinks)
            \* msg is the dict appended: the pass may have rewritten its content
            content == pruned[Len(pruned)].content
            latest == Latest(content, last_content)
            tcs == msg.tool_calls
        IN /\ rpcs' = rpcs + 1
           /\ received' = Append(received, msg)
           /\ last_content' = latest
           /\ IF tcs = <<>>
              THEN /\ messages' = pruned
                   /\ tool_calls' = tcs
                   /\ pc' = "returned"
                   /\ ret' = Str(strip_think(latest))
              ELSE /\ messages' =
                        pruned \o [i \in DOMAIN ExtraCalls(tcs) |-> TooMany(ExtraCalls(tcs)[i])]
                   /\ tool_calls' = PySliceTo(tcs, 1)
                   /\ pc' = "tool"
                   /\ ret' = ret
    /\ UNCHANGED <<cfg, step, dump_idx, screen, executed, surface, endpoint,
                   hmVars, fnVars>>

\* The failed RPC is made again.
RpcFaultRetried ==
    /\ pc = "rpc"
    /\ rpcs' = rpcs + 1
    /\ pc' = "rpc"
    /\ UNCHANGED <<cfg, messages, step, last_content, dump_idx, screen, tool_calls, ret,
                   received, executed, surface, endpoint, hmVars, fnVars>>

\* The model RPC raises (transport fault, timeout) or its response lacks
\* choices/message: the exception leaves run_agent.
RpcFault ==
    /\ pc = "rpc"
    /\ rpcs' = rpcs + 1
    /\ pc' = "aborted"
    /\ UNCHANGED <<cfg, messages, step, last_content, dump_idx, screen, tool_calls, ret,
                   received, executed, surface, endpoint, hmVars, fnVars>>

\* Every call of the reply is executed, not the first alone.
DispatchEveryCall ==
    /\ pc = "tool"
    /\ \E cap \in Captures :
        LET tcs == received[Len(received)].tool_calls
            outs == [i \in DOMAIN tcs |->
                        execute_tool(tcs[i].name, tcs[i].arguments, tcs[i].id, Env(cap))]
            ops[i \in 0..Len(tcs)] == IF i = 0 THEN <<>> ELSE ops[i - 1] \o outs[i].ops
            out == outs[1]
        IN /\ executed' = Append(executed,
                                 [step |-> step + 1, name |-> tcs[1].name, id |-> tcs[1].id])
           /\ surface' = surface \o Logged(ops[Len(tcs)], step + 1)
           /\ screen' = out.screen
           /\ dump_idx' = out.dump_idx
           /\ IF out.raised # None
              THEN /\ pc' = "aborted"
                   /\ UNCHANGED <<messages, step, ret>>
              ELSE /\ messages' = AppendOutcome(messages, out)
                   /\ step' = step + 1
                   /\ pc' = LoopPc(step + 1)
                   /\ ret' = LoopRet(step + 1, last_content)
    /\ UNCHANGED <<cfg, last_content, tool_calls, rpcs, received, endpoint,
                   hmVars, fnVars>>

\* STEP, second half: the one call is executed and answered, then the loop
\* head; or execute_tool raises and the run is left.
Dispatch ==
    /\ pc = "tool"
    /\ \E cap \in Captures :
        LET tc == tool_calls[1]
            out == execute_tool(tc.name, tc.arguments, tc.id, Env(cap))
        IN /\ executed' = Append(executed,
                                 [step |-> step + 1, name |-> tc.name, id |-> tc.id])
           /\ surface' = surface \o Logged(out.ops, step + 1)
           /\ screen' = out.screen
           /\ dump_idx' = out.dump_idx
           /\ IF out.raised # None
              THEN \* the exception leaves run_agent
                   /\ pc' = "aborted"
                   /\ UNCHANGED <<messages, step, ret>>
              ELSE /\ messages' = AppendOutcome(messages, out)
                   /\ step' = step + 1
                   /\ pc' = LoopPc(step + 1)
                   /\ ret' = LoopRet(step + 1, last_content)
    /\ UNCHANGED <<cfg, last_content, tool_calls, rpcs, received, endpoint,
                   hmVars, fnVars>>

Init == AgentInit /\ AnyReply /\ HmIdle /\ FnIdle

Next == InitObserve \/ ModelReply \/ RpcFault \/ Dispatch

Spec == Init /\ [][Next]_vars

-----------------------------------------------------------------------------
(* The history manager on its own: a transcript and a keep_last are drawn,  *)
(* and one pass is applied to them, and then again to its result.           *)

MaxShots == 5
MaxTurns == 3
HmMaxKeep == 2

\* "</think><think>": both delimiters, no span
Unpaired == CLOSE \o OPEN
\* " <think>a</think>x<think>b</think> "
TwoSpans == <<" ">> \o OPEN \o <<"a">> \o CLOSE \o <<"x">> \o OPEN \o <<"b">> \o CLOSE \o <<" ">>

\* The image part of message i carries i, so that no two frames are equal.
ShotMessage(kind, i) ==
    CASE kind = "shot" ->
            [role |-> "user",
             content |-> Parts(<<[type |-> "text"], [type |-> "image_url", url |-> i]>>)]
      [] kind = "parts" -> [role |-> "user", content |-> Parts(<<[type |-> "text"]>>)]
      [] kind = "note" -> [role |-> "user", content |-> Str(task_prompt)]
      [] OTHER ->
            [role |-> "assistant",
             content |-> Parts(<<[type |-> "image_url", url |-> i]>>)]

ShotKinds == {"shot", "parts", "note", "reply"}

ShotTranscripts ==
    UNION { { [i \in 1..n |-> ShotMessage(kinds[i], i)] : kinds \in [1..n -> ShotKinds] } :
            n \in 0..MaxShots }

TurnMessages ==
    { [role |-> "assistant", content |-> c] :
        c \in {None, Str(<<"o", "k">>), Str(ThinkThenAnswer), Str(SplicedThink),
               Str(Unpaired), Str(TwoSpans)} }
    \cup { [role |-> "user", content |-> Str(ThinkThenAnswer)] }

TurnTranscripts == UNION { [1..n -> TurnMessages] : n \in 0..MaxTurns }

AgentOff ==
    /\ cfg = [keep_last_screenshots |-> 0, keep_last_thinks |-> 0, max_steps |-> 0,
              dump_start |-> DumpStart]
    /\ pc = "off"
    /\ messages = <<>>
    /\ step = 0
    /\ last_content = Str(<<>>)
    /\ dump_idx = DumpStart
    /\ screen = [width |-> DefaultWidth, height |-> DefaultHeight]
    /\ tool_calls = <<>>
    /\ ret = None
    /\ rpcs = 0
    /\ received = <<>>
    /\ executed = <<>>
    /\ surface = <<>>
    /\ endpoint = "none"

HmInit ==
    /\ AgentOff
    /\ FnIdle
    /\ hm_pc = "ready"
    /\ hm_in \in ShotTranscripts \cup TurnTranscripts
    /\ hm_k \in 0..HmMaxKeep
    /\ hm_out = <<>>
    /\ hm_again = <<>>

PruneScreenshots ==
    /\ hm_pc = "ready"
    /\ hm_pc' = "screens"
    /\ hm_out' = prune_old_screenshots(hm_in, hm_k)
    /\ hm_again' = prune_old_screenshots(prune_old_screenshots(hm_in, hm_k), hm_k)
    /\ UNCHANGED <<hm_in, hm_k, agentVars, fnVars>>

PruneThinks ==
    /\ hm_pc = "ready"
    /\ hm_pc' = "thinks"
    /\ hm_out' = prune_old_thinks(hm_in, hm_k)
    /\ hm_again' = prune_old_thinks(prune_old_thinks(hm_in, hm_k), hm_k)
    /\ UNCHANGED <<hm_in, hm_k, agentVars, fnVars>>

HmNext == PruneScreenshots \/ PruneThinks

HmSpec == HmInit /\ [][HmNext]_vars

-----------------------------------------------------------------------------
(* A run whose replies carry one tool call each, over every tool and every  *)
(* way its arguments fail.                                                  *)

OneCallReplies == endpoint = "one_call"

\* The last screenshot and the last reasoning span are kept.
CallInit ==
    /\ AgentInit
    /\ cfg.keep_last_screenshots = 1
    /\ cfg.keep_last_thinks = 1
    /\ OneCallReplies
    /\ HmIdle
    /\ FnIdle

CallSpec == CallInit /\ [][Next]_vars

-----------------------------------------------------------------------------
(* One function on its own: its arguments are drawn, it is applied once.    *)

MaxBoxLen == 4

\* The elements of a box: numbers in and out of range, and other values.
NumberElements == {Num(-5), Num(50), Num(100), Num(200), Num(400), Num(1005)}
BoxElements == {Num(1000), Bool(TRUE), Str(<<"5">>), Str(<<"a">>), None}

PairElements == {Num(-5), Num(300), Num(1005), Bool(TRUE), Str(<<"5">>), Str(<<"a">>), None}

\* Lists of numbers, and lists that hold other values.
FlatBoxes ==
    UNION { {List(l) : l \in [1..n -> NumberElements] \cup [1..n -> BoxElements]} :
            n \in 0..MaxBoxLen }

Pairs == {List(l) : l \in [1..2 -> PairElements]}
           \cup {List(<<>>), List(<<Num(1)>>), List(<<Num(1), Num(2), Num(3)>>), Num(7)}

NestedBoxes == {List(<<p1, p2>>) : p1 \in Pairs, p2 \in Pairs}

\* Boxes with an int that float() cannot hold.
BigBoxes ==
    {List(<<BigInt, Num(0)>>), List(<<Num(0), Num(0), Num(0), BigInt>>),
     List(<<Point(0, 0), List(<<BigInt, Num(0)>>)>>),
     List(<<List(<<Str(<<"a">>), Num(0)>>), List(<<BigInt, Num(0)>>)>>)}

Boxes == FlatBoxes \cup NestedBoxes \cup BigBoxes \cup {None, Str(<<"5">>), Num(5), EmptyDict}

Screens == {[width |-> DefaultWidth, height |-> DefaultHeight], [width |-> 1280, height |-> 720]}

FnEnvs == [screen : Screens, dump_idx : {DumpStart, DumpStart + 1}, capture : Captures]

FnInputs ==
    { [f |-> "parse_args", arg_str |-> a] : a \in ArgPayloads }
    \cup { [f |-> "parse_box", box |-> b] : b \in Boxes }
    \cup { [f |-> "execute_tool", tool_name |-> n, arg_str |-> a, call_id |-> "call_1",
            env |-> e] :
                n \in KnownTools \cup UnknownTools, a \in ArgPayloads, e \in FnEnvs }

FnInit ==
    /\ AgentOff
    /\ HmIdle
    /\ fn_pc = "ready"
    /\ fn_in \in FnInputs
    /\ fn_out = None

CallParseArgs ==
    /\ fn_pc = "ready"
    /\ fn_in.f = "parse_args"
    /\ fn_pc' = "parse_args"
    /\ fn_out' = parse_args(fn_in.arg_str)
    /\ UNCHANGED <<fn_in, agentVars, hmVars>>

CallParseBox ==
    /\ fn_pc = "ready"
    /\ fn_in.f = "parse_box"
    /\ fn_pc' = "parse_box"
    /\ fn_out' = parse_box(fn_in.box)
    /\ UNCHANGED <<fn_in, agentVars, hmVars>>

CallExecuteTool ==
    /\ fn_pc = "ready"
    /\ fn_in.f = "execute_tool"
    /\ fn_pc' = "execute_tool"
    /\ fn_out' = execute_tool(fn_in.tool_name, fn_in.arg_str, fn_in.call_id, fn_in.env)
    /\ UNCHANGED <<fn_in, agentVars, hmVars>>

FnNext == CallParseArgs \/ CallParseBox \/ CallExecuteTool

FnSpec == FnInit /\ [][FnNext]_vars

-----------------------------------------------------------------------------
(* Reading the transcript and the history of a run *)

\* The indices of the assistant messages: the s-th is the reply of step s.
AssistantIdxs == Idxs([i \in DOMAIN messages |-> messages[i].role = "assistant"])

\* The messages appended behind the reply of step s, up to the next reply.
After(s) ==
    LET a == AssistantIdxs
        last == IF s < Len(a) THEN a[s + 1] - 1 ELSE Len(messages)
    IN SubSeq(messages, a[s] + 1, last)

IsTooMany(m) ==
    /\ m.role = "tool"
    /\ ~m.content.v.ok
    /\ m.content.v.error = Str("too_many_tool_calls")

ExecutedAt(s) == SelectSeq(executed, LAMBDA e : e.step = s)
SurfaceAt(s) == SelectSeq(surface, LAMBDA o : o.step = s)

Count(seq, P(_)) == Cardinality({i \in DOMAIN seq : P(seq[i])})

Distinct(seq) == \A i, j \in DOMAIN seq : i # j => seq[i] # seq[j]

\* The replies are those received, with their tool calls.
SameCalls == /\ Len(AssistantIdxs) = Len(received)
             /\ \A s \in DOMAIN received :
                    messages[AssistantIdxs[s]].tool_calls = received[s].tool_calls

-----------------------------------------------------------------------------
(* The claims *)

\* C1: a reply with N > 1 tool calls has exactly its first call executed
\* through execute_tool, and exactly N-1 too_many_tool_calls tool messages
\* appended, one for each extra call in order, each with that call's id and name.
C1_SingleActionPerTurn ==
    /\ SameCalls
    /\ \A s \in DOMAIN received :
        LET tcs == received[s].tool_calls
            synth == SelectSeq(After(s), IsTooMany)
        IN Len(tcs) > 1 =>
            /\ Len(synth) = Len(tcs) - 1
            /\ \A j \in DOMAIN synth :
                    /\ synth[j].tool_call_id = tcs[j + 1].id
                    /\ synth[j].name = tcs[j + 1].name
            /\ ExecutedAt(s) =
                    IF s <= step
                    THEN <<[step |-> s, name |-> tcs[1].name, id |-> tcs[1].id]>>
                    ELSE <<>>

\* A reply with several calls was received, its first call was executed.
C1_Witness ==
    \E s \in DOMAIN received :
        /\ Len(received[s].tool_calls) > 1
        /\ s <= step
        /\ ExecutedAt(s) # <<>>
        /\ SelectSeq(After(s), IsTooMany) # <<>>

\* C2: at every model RPC call, every tool call id of every assistant message
\* of the transcript (ids of one reply being distinct) is answered by exactly
\* one tool message with that id, appended behind that assistant message and
\* before the next one.
C2_EveryCallAnswered ==
    pc = "rpc" =>
        \A s \in DOMAIN AssistantIdxs :
            LET tcs == messages[AssistantIdxs[s]].tool_calls
                ids == [j \in DOMAIN tcs |-> tcs[j].id]
            IN Distinct(ids) =>
                \A j \in DOMAIN ids :
                    Count(After(s), LAMBDA m : m.role = "tool" /\ m.tool_call_id = ids[j]) = 1

\* The model is called with a transcript that holds a reply of several calls.
C2_Witness ==
    /\ pc = "rpc"
    /\ \E s \in DOMAIN AssistantIdxs : Len(messages[AssistantIdxs[s]].tool_calls) > 1

\* Content is a result envelope: {ok: true, ...} or {ok: false, error: {type, message}}.
IsEnvelope(c) ==
    /\ c.t = "json"
    /\ \/ c.v.ok
       \/ /\ c.v.error.t = "obj"
          /\ DOMAIN c.v.error = {"t", "type", "message"}

\* C3: every tool message of the transcript carries a result envelope of one
\* of the two shapes, the error of the failure shape being an object with a
\* type and a message.
C3_ToolContentIsEnvelope ==
    \A i \in DOMAIN messages : messages[i].role = "tool" => IsEnvelope(messages[i].content)

\* C4: after prune_old_screenshots(transcript, k), k >= 0, at most k user
\* messages hold an image part.
C4_ScreenshotsBounded == hm_pc = "screens" => Count(hm_out, HasImage) <= hm_k

\* Some span "<think>...</think>" is in the text.
HasSpan(s) == ThinkSub(s) # s

\* Message i of the transcript matched, and at least k matching messages come behind it.
OlderThanLast(msgs, P(_), i, k) ==
    /\ P(msgs[i])
    /\ Count(SubSeq(msgs, i + 1, Len(msgs)), P) >= k

\* C5: after prune_old_thinks(transcript, k), k >= 0, at most k assistant
\* messages still match the scan predicate, and every older matching message
\* is left without a reasoning span.
C5_ThinksBounded ==
    hm_pc = "thinks" =>
        /\ Count(hm_out, HasThink) <= hm_k
        /\ \A i \in DOMAIN hm_in :
                OlderThanLast(hm_in, HasThink, i, hm_k) => ~HasSpan(hm_out[i].content.s)

\* C6: each retention pass, applied again with the same keep_last, leaves the
\* transcript as its first application left it.
C6_PassesIdempotent == hm_pc \in {"screens", "thinks"} => hm_again = hm_out

\* C7: with more than k image-bearing user messages, prune_old_screenshots
\* puts the placeholder in exactly those other than the k most recent and
\* changes nothing else: length, order, roles and every other content.
C7_ScreenshotFrame ==
    (hm_pc = "screens" /\ Count(hm_in, HasImage) > hm_k) =>
        /\ Len(hm_out) = Len(hm_in)
        /\ \A i \in DOMAIN hm_in :
                IF OlderThanLast(hm_in, HasImage, i, hm_k)
                THEN hm_out[i] = [hm_in[i] EXCEPT !.content = Str(PLACEHOLDER)]
                ELSE hm_out[i] = hm_in[i]

\* C8: at every model RPC call the transcript holds at most
\* keep_last_screenshots image-bearing user messages and at most
\* keep_last_thinks assistant messages with a reasoning span.
C8_HistoryBounded ==
    pc = "rpc" =>
        /\ Count(messages, HasImage) <= cfg.keep_last_screenshots
        /\ Count(messages, HasThink) <= cfg.keep_last_thinks

Toolless(s) == received[s].tool_calls = <<>>

\* What C9 says of every state of a run.
C9_Bounded ==
    /\ pc # "init" =>
            /\ ExecutedAt(0) = <<[step |-> 0, name |-> "observe_screen",
                                  id |-> "initial_observation"]>>
            /\ Len(SurfaceAt(0)) = 1
            /\ SurfaceAt(0)[1].op = "capture"
    /\ rpcs <= cfg.max_steps
    /\ \A s \in DOMAIN received :
            Toolless(s) => /\ s = Len(received)
                           /\ pc = "returned"
                           /\ \A t \in s..MaxSteps + 1 : ExecutedAt(t) = <<>>
    /\ pc = "returned" =>
            \/ received # <<>> /\ Toolless(Len(received))
            \/ step = cfg.max_steps /\ rpcs = cfg.max_steps

\* The actions run_agent has taken: the initial observation, the model RPC
\* calls and the tool executions.
StepsTaken == (IF pc = "init" THEN 0 ELSE 1) + rpcs + step

\* A run that has not ended has its next action to take: the calls it waits
\* for return.
C9_NotStuck ==
    /\ pc \in {"init", "rpc", "tool", "returned", "aborted"}
    /\ pc = "tool" => Len(tool_calls) = 1
    /\ StepsTaken <= 2 * cfg.max_steps + 1

\* C9: with every model RPC and capability call returning, a run ends, after
\* exactly one initial observation and at most max_steps model RPC calls: at
\* the first reply without tool calls (nothing is executed for it or after
\* it) or after the max_steps-th step; with max_steps = 0 no RPC is made.
\* Every action is one more of at most 2 * max_steps + 1 steps, so no run
\* goes on for ever.
C9_Terminates ==
    /\ [](C9_Bounded /\ C9_NotStuck)
    /\ [][StepsTaken' = StepsTaken + 1]_vars

\* A run used its whole step budget and returned.
C9_Witness ==
    /\ pc = "returned"
    /\ cfg.max_steps = MaxSteps
    /\ rpcs = MaxSteps
    /\ step = MaxSteps
    /\ ~Toolless(Len(received))

\* The content of the most recent reply whose content was plain text, "" if none.
RECURSIVE LatestText(_)
LatestText(rs) ==
    IF rs = <<>> THEN Str(<<>>)
    ELSE IF rs[Len(rs)].content.t = "str" THEN rs[Len(rs)].content
    ELSE LatestText(SubSeq(rs, 1, Len(rs) - 1))

\* C10: the value returned, on a toolless reply and on budget exhaustion
\* alike, is the reasoning-stripped content of the most recent assistant
\* message whose content was plain text, or "" if there was none.
C10_ReturnsLatestAnswer ==
    pc = "returned" => ret = Str(strip_think(LatestText(received)))

\* The budget ran out behind a reply without text that followed one with text.
C10_Witness ==
    /\ pc = "returned"
    /\ Len(received) = 2
    /\ received[1].content.t = "str"
    /\ received[2].content.t = "none"
    /\ received[2].tool_calls # <<>>
    /\ ret.s # <<>>

\* The type of the error a content reports, "" if it reports none.
ErrorType(c) ==
    IF c.t = "json" /\ ~c.v.ok /\ c.v.error.t = "obj" THEN c.v.error.type ELSE ""

ReportedErrors ==
    {"invalid_args", "invalid_json", "missing_label", "missing_box", "missing_key",
     "empty_text", "invalid_box", "invalid_key", "unknown_tool"}

\* execute_tool answers the call with one of the reported errors.
FailsReported(tc) ==
    \E cap \in Captures :
        LET out == execute_tool(tc.name, tc.arguments, tc.id, Env(cap))
        IN out.raised = None /\ ErrorType(out.tool_msg.content) \in ReportedErrors

\* C11: the step that executes a tool call failing with invalid_args,
\* invalid_json, missing_label, missing_box, missing_key, empty_text,
\* invalid_box, invalid_key or unknown_tool does not abort the run: it appends
\* one message, the tool message of that call id carrying the error, leaves
\* the transcript before it as it was, completes the step and goes to the next
\* model RPC, or returns if the step budget is used up.
C11_ErrorsReported ==
    [][(pc = "tool" /\ FailsReported(tool_calls[1])) =>
            /\ Len(messages') = Len(messages) + 1
            /\ SubSeq(messages', 1, Len(messages)) = messages
            /\ LET m == messages'[Len(messages')]
               IN /\ m.role = "tool"
                  /\ m.tool_call_id = tool_calls[1].id
                  /\ ErrorType(m.content) \in ReportedErrors
            /\ step' = step + 1
            /\ rpcs' = rpcs
            /\ pc' = IF step' < cfg.max_steps THEN "rpc" ELSE "returned"]_vars

\* The call of the first reply failed, and the model was called again.
C11_Witness ==
    /\ rpcs = 2
    /\ step >= 1
    /\ Len(After(1)) = 1
    /\ After(1)[1].tool_call_id = received[1].tool_calls[1].id
    /\ ErrorType(After(1)[1].content) \in ReportedErrors

\* C12: a model RPC that raises or whose response lacks choices/message (it
\* gives no assistant message) aborts the run; the run made that RPC once, as
\* its last, and returned no answer, and from then on nothing is executed, no
\* capability-surface call is made, no RPC is issued and nothing is returned.
C12_FaultAborts ==
    /\ [](pc = "aborted" => (ret = None /\ rpcs = Len(received) + 1))
    /\ [][(rpcs' # rpcs /\ received' = received) => pc' = "aborted"]_vars
    /\ [][pc = "aborted" =>
            /\ pc' = "aborted"
            /\ executed' = executed
            /\ surface' = surface
            /\ rpcs' = rpcs
            /\ ret' = ret]_vars

\* The second RPC of a run failed, after the call of the first reply was executed.
C12_Witness ==
    /\ pc = "aborted"
    /\ rpcs = 2
    /\ step = 1
    /\ Len(executed) = 2

\* C13: for a tool name outside the five known names and any argument
\* payload, execute_tool returns a tool message with an unknown_tool error and
\* no companion user message, makes no capability-surface call and leaves the
\* screen geometry and the dump frame index as they were.
C13_UnknownTool ==
    (fn_pc = "execute_tool" /\ fn_in.tool_name \notin KnownTools) =>
        /\ fn_out.tool_msg.role = "tool"
        /\ ErrorType(fn_out.tool_msg.content) = "unknown_tool"
        /\ fn_out.user_msg = None
        /\ fn_out.ops = <<>>
        /\ fn_out.screen = fn_in.env.screen
        /\ fn_out.dump_idx = fn_in.env.dump_idx

\* A name that differs from a known one by case only, with arguments that
\* would pass for a known tool.
C13_Witness ==
    /\ fn_pc = "execute_tool"
    /\ fn_in.tool_name = "Observe_Screen"
    /\ fn_in.arg_str = Args(Str(<<"o", "k">>), Point(500, 500), Absent, Absent)
    /\ ErrorType(fn_out.tool_msg.content) = "unknown_tool"

\* The error click_element is to answer with for these arguments, "" if none:
\* the label is to be a text that is not blank, the box present and well formed.
ClickError(args) ==
    LET label == args.d.label
        box == args.d.box
    IN IF label.t # "str" \/ Strip(label.s) = <<>> THEN "missing_label"
       ELSE IF box.t \in {"absent", "none"} THEN "missing_box"
       ELSE IF parse_box(box).err # None THEN "invalid_box"
       ELSE ""

\* C14: click_element, given an argument mapping, answers missing_label for a
\* missing, empty or non-string label (whatever the box), else missing_box for
\* a missing box, else invalid_box for a malformed box, and in each of these
\* cases neither moves the pointer nor clicks; otherwise it moves the pointer
\* once and then clicks once, in that order, and reports success.
C14_ClickValidated ==
    (/\ fn_pc = "execute_tool"
     /\ fn_in.tool_name = "click_element"
     /\ parse_args(fn_in.arg_str).err = None) =>
        LET expected == ClickError(parse_args(fn_in.arg_str).args)
        IN /\ fn_out.raised = None
           /\ ErrorType(fn_out.tool_msg.content) = expected
           /\ expected # "" => fn_out.ops = <<>>
           /\ expected = "" =>
                /\ fn_out.tool_msg.content.v.ok
                /\ Len(fn_out.ops) = 2
                /\ fn_out.ops[1].op = "move"
                /\ fn_out.ops[2].op = "click"

\* A coordinate brought into [0, 1000], in halves.
Clamped(n) == (IF n < 0 THEN 0 ELSE IF n > CoordMax THEN CoordMax ELSE n) * FloatUnit

\* C15: a region parse_box returns has its four values in [0, 1000] and
\* x1 <= x2, y1 <= y2, whatever the numbers given; [100,200,50,400] gives
\* (50,200,100,400); a descriptor of two numbers gives the point region of the
\* clamped point, which is its box_center.
C15_RegionNormalised ==
    (fn_pc = "parse_box" /\ fn_out.err = None) =>
        LET b == fn_out.bbox
            box == fn_in.box
        IN /\ \A i \in 1..4 : 0 <= b[i] /\ b[i] <= CoordMax * FloatUnit
           /\ b[1] <= b[3]
           /\ b[2] <= b[4]
           /\ box = List(<<Num(100), Num(200), Num(50), Num(400)>>) =>
                b = <<50 * FloatUnit, 200 * FloatUnit, 100 * FloatUnit, 400 * FloatUnit>>
           /\ (Len(box.l) = 2 /\ box.l[1].t = "num" /\ box.l[2].t = "num") =>
                /\ b = <<Clamped(box.l[1].n), Clamped(box.l[2].n),
                         Clamped(box.l[1].n), Clamped(box.l[2].n)>>
                /\ box_center(b[1], b[2], b[3], b[4]) =
                        <<Clamped(box.l[1].n), Clamped(box.l[2].n)>>

\* A region came of two pairs whose numbers were out of range and inverted.
C15_Witness ==
    /\ fn_pc = "parse_box"
    /\ fn_in.box = List(<<Point(1005, 300), Point(-5, -5)>>)
    /\ fn_out.bbox = <<0, 0, CoordMax * FloatUnit, 300 * FloatUnit>>

AllNumbers(l) == \A i \in DOMAIN l : IsNumber(l[i])

\* One of the three accepted shapes, every coordinate element a number.
WellFormedBox(box) ==
    /\ box.t = "list"
    /\ \/ Len(box.l) \in {2, 4} /\ AllNumbers(box.l)
       \/ /\ Len(box.l) = 2
          /\ \A i \in 1..2 :
                box.l[i].t = "list" /\ Len(box.l[i].l) = 2 /\ AllNumbers(box.l[i].l)

\* C16: parse_box returns either a region or an error; for a descriptor that
\* is not of the three shapes, is wrongly nested or holds an element that is
\* not a number (a string inside a nested pair, for one) it returns the
\* invalid_box error and no region, so that a region is returned only when
\* every coordinate element is a number.
C16_InvalidBoxRejected ==
    fn_pc = "parse_box" =>
        /\ (fn_out.bbox = None) # (fn_out.err = None)
        /\ ~WellFormedBox(fn_in.box) =>
                /\ fn_out.bbox = None
                /\ ErrorType(fn_out.err) = "invalid_box"

\* What parse_args is to return for a payload: the mapping (or None) and the
\* type of the error ("" for none).  The empty text is taken as the empty
\* mapping if empty_is_mapping, and as a text to decode if not.
ArgsExpected(a, empty_is_mapping) ==
    CASE a.t = "none" -> [args |-> EmptyDict, error |-> ""]
      [] a.t = "dict" -> [args |-> a, error |-> ""]
      [] a.t = "str" ->
            IF a.s = <<>> /\ empty_is_mapping THEN [args |-> EmptyDict, error |-> ""]
            ELSE IF ~JsonLoads(a.s).ok THEN [args |-> None, error |-> "invalid_json"]
            ELSE IF JsonLoads(a.s).val.t # "dict"
            THEN [args |-> None, error |-> "invalid_args"]
            ELSE [args |-> JsonLoads(a.s).val, error |-> ""]
      [] OTHER -> [args |-> None, error |-> "invalid_args"]

ArgsAgree(out, expected) ==
    /\ out.args = expected.args
    /\ ErrorType(out.err) = expected.error
    /\ (out.args = None) # (out.err = None)

\* C17 as stated: parse_args maps None to the empty mapping, a mapping to
\* itself and a string to its JSON decoding; a string that is not valid JSON
\* fails with invalid_json, one decoding to a non-mapping with invalid_args,
\* any other payload type with invalid_args; exactly one of mapping and error
\* is returned.
C17_ArgsDecoded ==
    fn_pc = "parse_args" => ArgsAgree(fn_out, ArgsExpected(fn_in.arg_str, FALSE))

\* C17 amended: as stated, for None, mappings, non-empty strings and other
\* types; the empty string is not decoded and gives the empty mapping.
C17_ArgsDecodedOrEmpty ==
    fn_pc = "parse_args" => ArgsAgree(fn_out, ArgsExpected(fn_in.arg_str, TRUE))

\* parse_args was given the empty string.
C17_Witness ==
    /\ fn_pc = "parse_args"
    /\ fn_in.arg_str = Str(<<>>)
    /\ fn_out = [args |-> EmptyDict, err |-> None]

\* The tool messages of the captures, in the order of the transcript.
CaptureReports(msgs) ==
    SelectSeq(msgs, LAMBDA m : /\ m.role = "tool"
                               /\ m.name = "observe_screen"
                               /\ m.content.v.ok)

\* The dimensions the most recent capture reported.
LastCaptureDims(msgs) ==
    LET r == CaptureReports(msgs)
        f == r[Len(r)].content.v.fields
    IN [width |-> f.screen_width, height |-> f.screen_height]

\* The normalized point a click or scroll reports having acted at.
Centre(tool_msg) ==
    IF tool_msg.name = "click_element" THEN tool_msg.content.v.fields.click_position
    ELSE tool_msg.content.v.fields.scrolled_at

\* C18: once the initial observation is made, the screen geometry is that of
\* the most recent capture and never the default it had before; an execution
\* of any tool other than observe_screen, failed or not, leaves it as it was;
\* and the pointer position of every click and scroll is the conversion of the
\* point acted at with the dimensions the most recent capture reported.
C18_GeometryOfLastCapture ==
    /\ [](pc # "init" =>
            /\ screen = LastCaptureDims(messages)
            /\ screen # [width |-> DefaultWidth, height |-> DefaultHeight])
    /\ [][executed' # executed =>
            (executed'[Len(executed')].name # "observe_screen" => screen' = screen)]_vars
    /\ [][\A i \in Len(surface) + 1..Len(surface') :
            surface'[i].op = "move" =>
                LET c == Centre(messages'[Len(messages')])
                    dims == LastCaptureDims(messages)
                IN surface'[i].arg = norm_to_screen_px(c[1], c[2], dims.width, dims.height)]_vars

\* After two captures of different sizes a click moved the pointer by the
\* size of the second.
C18_Witness ==
    /\ step = 2
    /\ executed[2].name = "observe_screen"
    /\ executed[3].name = "click_element"
    /\ Len(CaptureReports(messages)) = 2
    /\ CaptureReports(messages)[1].content.v.fields.screen_width = 2560
    /\ screen.width = 1280
    /\ \E i \in DOMAIN surface :
            surface[i] = [step |-> 2, op |-> "move", arg |-> <<640, 360>>]

\* The captures of the run, in order; the argument of each is its file number.
CaptureOps == SelectSeq(surface, LAMBDA o : o.op = "capture")

\* C19: the dump frame index starts at the configured value; the k-th capture
\* of a run (the initial observation being the first) is written to file
\* number start + k - 1 and the index is then start + k, so that it never
\* decreases and no two captures share a file number; an execution of
\* observe_screen raises it by exactly one, an execution of any other tool,
\* failed or not, leaves it as it was.
C19_DumpIndex ==
    /\ [](/\ dump_idx = cfg.dump_start + Len(CaptureOps)
          /\ \A k \in DOMAIN CaptureOps : CaptureOps[k].arg = cfg.dump_start + k - 1)
    /\ [][executed' # executed =>
            dump_idx' = IF executed'[Len(executed')].name = "observe_screen"
                        THEN dump_idx + 1 ELSE dump_idx]_vars
    /\ [][dump_idx' >= dump_idx]_vars

\* A failed click, then a capture: the second of the run.
C19_Witness ==
    /\ step = 2
    /\ executed[2].name = "click_element"
    /\ ErrorType(After(1)[1].content) # ""
    /\ executed[3].name = "observe_screen"
    /\ Len(CaptureOps) = 2
    /\ CaptureOps[2].arg = cfg.dump_start + 1
    /\ dump_idx = cfg.dump_start + 2

\* Message n is message m with its content redacted by a retention pass: the
\* placeholder for an image-bearing user message, the text without its
\* reasoning spans for an assistant message that matched.
Redacted(m, n) ==
    /\ n = [m EXCEPT !.content = n.content]
    /\ \/ HasImage(m) /\ n.content = Str(PLACEHOLDER)
       \/ HasThink(m) /\ n.content = Str(Strip(ThinkSub(m.content.s)))

\* C20: in every state of run_agent the first message of the transcript is
\* the system instruction and the second the initial task, both as they were
\* given; a step never shortens the transcript and leaves each message it held
\* in its place, either as it was or with only its content redacted by one of
\* the two retention passes.
C20_TranscriptAppendOnly ==
    /\ [](/\ Len(messages) >= 2
          /\ messages[1] = [role |-> "system", content |-> Str(system_prompt)]
          /\ messages[2] = [role |-> "user", content |-> Str(task_prompt)])
    /\ [][/\ Len(messages') >= Len(messages)
          /\ \A i \in DOMAIN messages :
                /\ messages'[i].role = messages[i].role
                /\ messages'[i] = messages[i] \/ Redacted(messages[i], messages'[i])]_vars

\* Both passes have redacted: an old screenshot holds the placeholder and the
\* first reply has lost its reasoning span.
C20_Witness ==
    /\ rpcs = 2
    /\ \E i \in DOMAIN messages : messages[i].content = Str(PLACEHOLDER)
    /\ received[1].content = Str(ThinkThenAnswer)
    /\ messages[AssistantIdxs[1]].content = Str(<<"o", "k">>)
    /\ messages[2].content = Str(task_prompt)

\* C21: execute_tool returns a companion user message exactly when the tool
\* name is observe_screen, and that companion holds the captured image; for
\* every other name, known or not, and every outcome, success or error, the
\* companion is None.
C21_CompanionOnlyForCapture ==
    fn_pc = "execute_tool" =>
        IF fn_in.tool_name = "observe_screen"
        THEN /\ fn_out.user_msg # None
             /\ HasImage(fn_out.user_msg)
             /\ fn_out.ops = <<Op("capture", fn_in.env.dump_idx)>>
        ELSE fn_out.user_msg = None

\* A click that failed for its box came back without a companion.
C21_Witness ==
    /\ fn_pc = "execute_tool"
    /\ fn_in.tool_name = "click_element"
    /\ ErrorType(fn_out.tool_msg.content) = "invalid_box"
    /\ fn_out.user_msg = None

\* The characters of the text argument: none if the mapping has no text.
TextGiven(args) == IF args.d.text.t = "absent" THEN <<>> ELSE args.d.text.s

\* C22: type_text, given a mapping whose text is a string or is absent, keeps
\* the ASCII characters of the text in order and drops the others; if none is
\* left it answers empty_text and sends nothing to the capability surface;
\* otherwise it sends the filtered text, once, and reports it with chars equal
\* to its length: "héllo" types "hllo" with chars = 4.
C22_TypeTextFiltered ==
    (/\ fn_pc = "execute_tool"
     /\ fn_in.tool_name = "type_text"
     /\ parse_args(fn_in.arg_str).err = None
     /\ parse_args(fn_in.arg_str).args.d.text.t \in {"absent", "str"}) =>
        LET text == TextGiven(parse_args(fn_in.arg_str).args)
            kept == SelectSeq(text, LAMBDA c : c \notin NonAscii)
            c == fn_out.tool_msg.content
        IN /\ IF kept = <<>>
              THEN ErrorType(c) = "empty_text" /\ fn_out.ops = <<>>
              ELSE /\ c.v.ok
                   /\ c.v.fields.typed = kept
                   /\ c.v.fields.chars = Len(kept)
                   /\ fn_out.ops = <<Op("type", kept)>>
           /\ text = <<"h", "é", "l", "l", "o">> =>
                /\ fn_out.ops = <<Op("type", <<"h", "l", "l", "o">>)>>
                /\ c.v.fields.chars = 4

\* "héllo" was typed.
C22_Witness ==
    /\ fn_pc = "execute_tool"
    /\ fn_in.tool_name = "type_text"
    /\ fn_in.arg_str = Args(Absent, Absent, Str(<<"h", "é", "l", "l", "o">>), Absent)
    /\ fn_out.tool_msg.content.v.ok

\* scroll_at_position returned success for the normalized point c (in halves):
\* it moved the pointer to the pixel of c, once, and then scrolled, once.
ScrollOutcome(out, c, scr) ==
    /\ out.tool_msg.content.v.ok
    /\ out.tool_msg.content.v.fields.scrolled_at = c
    /\ Len(out.ops) = 2
    /\ out.ops[1] = Op("move", norm_to_screen_px(c[1], c[2], scr.width, scr.height))
    /\ out.ops[2].op = "scroll"

\* C23: scroll_at_position, given an argument mapping, returns; with no box
\* it scrolls at the normalized centre (500,500); with a box that parses, at
\* the centre of its region; with a box that does not parse it answers
\* invalid_box and neither moves the pointer nor scrolls; a success moves the
\* pointer once and then scrolls once, in that order.
C23_ScrollTarget ==
    (/\ fn_pc = "execute_tool"
     /\ fn_in.tool_name = "scroll_at_position"
     /\ parse_args(fn_in.arg_str).err = None) =>
        LET box == Get(parse_args(fn_in.arg_str).args.d, "box", None)
            b == parse_box(box).bbox
        IN /\ fn_out.raised = None
           /\ IF box = None
              THEN ScrollOutcome(fn_out, <<500 * FloatUnit, 500 * FloatUnit>>, fn_in.env.screen)
              ELSE IF b # None
              THEN ScrollOutcome(fn_out, <<(b[1] + b[3]) \div 2, (b[2] + b[4]) \div 2>>,
                                 fn_in.env.screen)
              ELSE /\ ErrorType(fn_out.tool_msg.content) = "invalid_box"
                   /\ fn_out.ops = <<>>

OpNames(ops) == [i \in DOMAIN ops |-> ops[i].op]

\* The capability-surface calls one execution of a tool may make.
AllowedOps(tool_name) ==
    CASE tool_name = "observe_screen" -> {<<"capture">>}
      [] tool_name = "click_element" -> {<<>>, <<"move", "click">>}
      [] tool_name = "type_text" -> {<<>>, <<"type">>}
      [] tool_name = "press_key" -> {<<>>, <<"press">>}
      [] tool_name = "scroll_at_position" -> {<<>>, <<"move", "scroll">>}
      [] OTHER -> {<<>>}

\* C24: in each step of run_agent at most one tool is executed, the first
\* call of the reply of that step, and the capability-surface calls of the
\* step are those of that one execution: nothing, one capture, one move and
\* click, one type, one key press or one move and scroll; the extra calls of
\* a reply with several calls make none.  Before the first model RPC there is
\* the initial capture alone.
C24_OneExecutionPerStep ==
    /\ \A i \in DOMAIN surface : surface[i].step \in 0..Len(received)
    /\ OpNames(SurfaceAt(0)) \in {<<>>, <<"capture">>}
    /\ \A s \in DOMAIN received :
            /\ Len(ExecutedAt(s)) <= 1
            /\ IF ExecutedAt(s) = <<>> THEN SurfaceAt(s) = <<>>
               ELSE /\ ExecutedAt(s)[1].id = received[s].tool_calls[1].id
                    /\ ExecutedAt(s)[1].name = received[s].tool_calls[1].name
                    /\ OpNames(SurfaceAt(s)) \in AllowedOps(ExecutedAt(s)[1].name)

\* A reply asked for a click and for typing: the click was made, nothing typed.
C24_Witness ==
    \E s \in DOMAIN received :
        /\ Len(received[s].tool_calls) > 1
        /\ received[s].tool_calls[1].name = "click_element"
        /\ received[s].tool_calls[2].name = "type_text"
        /\ OpNames(SurfaceAt(s)) = <<"move", "click">>
        /\ \A i \in DOMAIN surface : surface[i].op # "type"

\* C25: behind a reply with N > 1 tool calls come first the N-1 synthetic
\* too_many_tool_calls messages, for calls 2..N in their order; once the step
\* has executed the first call, its tool message follows them and, only if
\* that call was observe_screen, its companion user message follows that; so
\* the result of the executed call is the last tool message of the step.
C25_StepMessageOrder ==
    \A s \in DOMAIN received :
        LET tcs == received[s].tool_calls
            N == Len(tcs)
            a == After(s)
            observed == tcs[1].name = "observe_screen"
        IN N > 1 =>
            /\ Len(a) >= N - 1
            /\ \A j \in 1..N - 1 :
                    /\ IsTooMany(a[j])
                    /\ a[j].tool_call_id = tcs[j + 1].id
                    /\ a[j].name = tcs[j + 1].name
            /\ IF s <= step
               THEN /\ Len(a) = IF observed THEN N + 1 ELSE N
                    /\ a[N].role = "tool"
                    /\ ~IsTooMany(a[N])
                    /\ a[N].tool_call_id = tcs[1].id
                    /\ a[N].name = tcs[1].name
                    /\ observed => a[N + 1].role = "user"
               ELSE Len(a) = N - 1

\* A reply of two calls, the first a capture, has been answered: the
\* synthetic message, the result of the capture, its companion.
C25_Witness ==
    \E s \in DOMAIN received :
        /\ Len(received[s].tool_calls) = 2
        /\ received[s].tool_calls[1].name = "observe_screen"
        /\ s <= step
        /\ Len(After(s)) = 3
        /\ IsTooMany(After(s)[1])
        /\ After(s)[2].content.v.ok
        /\ HasImage(After(s)[3])

-----------------------------------------------------------------------------
(* A run of the agent, or execute_tool on its own with drawn arguments.     *)

ToolInit == Init \/ FnInit

ToolNext == Next \/ FnNext

ToolSpec == ToolInit /\ [][ToolNext]_vars

\* messages[i] answers a call that an earlier assistant message issued.
Issued(i) ==
    \E j \in 1..i - 1 :
        /\ messages[j].role = "assistant"
        /\ \E k \in DOMAIN messages[j].tool_calls :
                /\ messages[j].tool_calls[k].id = messages[i].tool_call_id
                /\ messages[j].tool_calls[k].name = messages[i].name

\* C26: whatever the tool name, the argument payload and the outcome, the
\* tool message execute_tool returns has role tool, the call id it was given
\* and the tool name it was given; in a run the result of a step carries the
\* id and name of the call executed, and the initial observation, with id
\* initial_observation, is the one tool message that answers no call of an
\* earlier assistant message.
C26_ToolMessageCorrelated ==
    /\ (fn_pc = "execute_tool" /\ fn_out.raised = None) =>
            /\ fn_out.tool_msg.role = "tool"
            /\ fn_out.tool_msg.tool_call_id = fn_in.call_id
            /\ fn_out.tool_msg.name = fn_in.tool_name
    /\ \A s \in DOMAIN received :
            LET tcs == received[s].tool_calls
            IN (tcs # <<>> /\ s <= step) =>
                    /\ After(s)[Len(tcs)].role = "tool"
                    /\ After(s)[Len(tcs)].tool_call_id = tcs[1].id
                    /\ After(s)[Len(tcs)].name = tcs[1].name
    /\ pc \notin {"off", "init"} =>
            /\ messages[3].role = "tool"
            /\ messages[3].tool_call_id = "initial_observation"
            /\ messages[3].name = "observe_screen"
            /\ ~Issued(3)
    /\ \A i \in DOMAIN messages :
            (messages[i].role = "tool" /\ i # 3) => Issued(i)

\* execute_tool has answered a tool it does not know with an error: the
\* message carries the id and the name given.
C26_Witness ==
    /\ fn_pc = "execute_tool"
    /\ fn_in.tool_name = "launch_app"
    /\ fn_out.raised = None
    /\ ~fn_out.tool_msg.content.v.ok
    /\ fn_out.tool_msg.tool_call_id = "call_1"
    /\ fn_out.tool_msg.name = "launch_app"

=============================================================================
